---- MODULE Spec2Model ----
(***************************************************************************)
(* Model of src/src/lstm_trainer.py: the Trainer of the LSTM autoencoder   *)
(* (fit, plot_loss_history, predict, plot_prediction), the files it reads  *)
(* and writes, and the in-memory model whose parameters it trains.         *)
(*                                                                         *)
(* Numbers are fixed-point integers: a mean (nn.L1Loss(reduction="mean"),  *)
(* np.mean of an epoch's losses) is rounded down to the unit, as a float   *)
(* mean is rounded to the nearest float.  The threshold np.mean + np.std   *)
(* is kept exactly, as the count, the sum and the scaled squared deviation *)
(* of the array it is computed from, and compared exactly.                 *)
(*                                                                         *)
(* The network (Encoder, Decoder, LAE.forward) is abstracted to a single   *)
(* integer parameter: the reconstruction of a sequence is the sequence     *)
(* clipped at that level, and an optimizer step raises the level by one    *)
(* when the loss has a non-zero gradient.  What is kept of it is what the  *)
(* Trainer relies on: the reconstruction has the shape of the input and    *)
(* depends on the input and the parameters, the loss is the mean absolute  *)
(* error, and only optimizer.step changes the parameters.                  *)
(*                                                                         *)
(* Datasets are non-empty.  The scaler and the metrics computed from the   *)
(* unscaled values (MAE, R2) are outside the model; of the table's value   *)
(* columns only the lengths are kept, which decide whether the DataFrame   *)
(* can be built.  A call that has returned or raised rests in pc = "done"  *)
(* with its locals and its outcome until Return drops them.                *)
(***************************************************************************)
EXTENDS Integers, Sequences, FiniteSets, TLC

\* ------------------------------------------------------------------ bounds

MaxValue == 1       \* cell values and parameter levels are 0..MaxValue
MaxCorpus == 3      \* the loaded data hold 2..MaxCorpus sequences, split in train and val
MaxDim == 2         \* seq_len and n_features are 1..MaxDim
MaxHistory == 2     \* fit is started only if the history ends with at most this many epochs

\* --------------------------------------------------------------- variables

VARIABLES
  log_dir, model_name, history,          \* Trainer fields
  seq_len, n_features, params,           \* the LAE model
  train_ds, val_ds,                      \* datasets loaded by the caller
  dirs, ckpt_files, loss_files,          \* file system: directories, *.pth, losses.npz
  figures, result_txt, anomaly_csv,      \* file system: figures/*.png, result.txt, anomaly.csv
  pc, caller, outcome,                   \* control: position, who called predict, last call's result
  num_epochs, epoch, idx, train_losses, val_losses,   \* locals of fit
  fit_ret,                               \* value returned by fit
  model_path, dataset, predictions, losses,           \* locals of predict
  ret_predictions, ret_losses,           \* value returned by predict
  reconstruction_error, threshold, correct, anomaly,  \* locals of plot_prediction
  prev_scored                            \* history: what the last result summary was derived from

vars == << log_dir, model_name, history, seq_len, n_features, params,
           train_ds, val_ds, dirs, ckpt_files, loss_files,
           figures, result_txt, anomaly_csv, pc, caller, outcome,
           num_epochs, epoch, idx, train_losses, val_losses, fit_ret,
           model_path, dataset, predictions, losses,
           ret_predictions, ret_losses,
           reconstruction_error, threshold, correct, anomaly, prev_scored >>

trainerVars == << log_dir, model_name >>
dataVars == << seq_len, n_features, train_ds, val_ds >>
fitLocals == << num_epochs, epoch, train_losses, val_losses, fit_ret >>
predictLocals == << model_path, dataset, predictions, losses,
                    ret_predictions, ret_losses >>
plotLocals == << reconstruction_error, threshold, correct, anomaly >>
outputFiles == << figures, result_txt, anomaly_csv >>

\* ------------------------------------------------------------ arithmetic

Min(a, b) == IF a <= b THEN a ELSE b

Abs(a) == IF a >= 0 THEN a ELSE -a

RECURSIVE SumSeq(_)
SumSeq(s) == IF s = << >> THEN 0 ELSE Head(s) + SumSeq(Tail(s))

\* np.mean of a non-empty list
Mean(s) == SumSeq(s) \div Len(s)

\* ------------------------------------------------------------- the data

\* One sequence of shape (L, F): a ramp starting at level v.
MakeSequence(v, L, F) ==
  [t \in 1..L |-> [f \in 1..F |-> (v + (t - 1) * F + (f - 1)) % (MaxValue + 1)]]

\* The loaded data: n sequences, starting at level v.
MakeDataset(n, v, L, F) ==
  [i \in 1..n |-> MakeSequence((v + i - 1) % (MaxValue + 1), L, F)]

Shapes == (1..MaxDim) \X (1..MaxDim)

\* ------------------------------------------------------------ the model

InitParams == 0

\* numpy flatten(): row-major
Flatten(m) ==
  LET L == Len(m)
      F == Len(m[1])
  IN [k \in 1..(L * F) |-> m[((k - 1) \div F) + 1][((k - 1) % F) + 1]]

\* LAE.forward: a reconstruction of the input's shape
Forward(p, x) == [t \in 1..Len(x) |-> [f \in 1..Len(x[t]) |-> Min(x[t][f], p)]]

\* nn.L1Loss(reduction="mean")
L1Loss(pred, x) ==
  LET a == Flatten(pred)
      b == Flatten(x)
  IN SumSeq([k \in 1..Len(a) |-> Abs(a[k] - b[k])]) \div Len(a)

\* loss.backward(); optimizer.step()
OptimizerStep(p, x) ==
  IF \E t \in 1..Len(x) : \E f \in 1..Len(x[t]) : x[t][f] > p THEN p + 1 ELSE p

\* a validation pass that takes optimizer steps
ValParamsStepping(p, x) == OptimizerStep(p, x)

\* no update in the validation pass: model.eval(), torch.no_grad(), no optimizer.step
ValParams(p, x) == p

\* ------------------------------------------------------------ the files

LogDirs == {"training_logs", "other_logs"}

ModelNames == {"steering"}

\* f"{self.log_dir}/{self.model_name}.pth"
CkptPath(ld, mn) == ld \o "/" \o mn \o ".pth"

\* np.savez(f"{self.log_dir}/losses", ...) appends ".npz"
SavezPath(ld) == ld \o "/losses" \o ".npz"

\* np.load("training_logs/losses.npz", ...)
LossesReadPath == "training_logs/losses.npz"

CkptPaths == { CkptPath(ld, mn) : ld \in LogDirs, mn \in ModelNames }

SavezPaths == { SavezPath(ld) : ld \in LogDirs }

\* the three histograms plot_prediction saves
ScoreFigures == {"reconstruction_error.png", "test_error.png", "anomaly.png"}

\* self.history = defaultdict(list)
EmptyHistory == [train |-> << >>, val |-> << >>]

\* -------------------------------------------------------- the threshold

\* np.mean(e) + np.std(e), kept exactly: it is (sum + sqrt(dev)) / n, and nan
\* (n = 0) for an empty array
Threshold(e) ==
  LET n == Len(e)
      s == SumSeq(e)
      q == SumSeq([k \in 1..n |-> e[k] * e[k]])
  IN [n |-> n, sum |-> s, dev |-> n * q - s * s]

\* l >= threshold, false against nan
GeThreshold(l, th) ==
  /\ th.n > 0
  /\ l * th.n - th.sum >= 0
  /\ (l * th.n - th.sum) * (l * th.n - th.sum) >= th.dev

\* l <= threshold, false against nan
LeThreshold(l, th) ==
  /\ th.n > 0
  /\ \/ l * th.n - th.sum <= 0
     \/ (l * th.n - th.sum) * (l * th.n - th.sum) <= th.dev

\* an exclusive boundary
AnomalyLabelStrict(l, th) == GeThreshold(l, th) /\ ~LeThreshold(l, th)

\* anomaly = [l >= threshold for l in losses]
AnomalyLabel(l, th) == GeThreshold(l, th)

\* df["Anomaly"] = df["MAE"] >= threshold
TableAnomaly(mae, th) == GeThreshold(mae, th)

\* correct = sum(l <= threshold for l in losses)
CountCorrect(ls, th) == Cardinality({ i \in 1..Len(ls) : LeThreshold(ls[i][1], th) })

\* ------------------------------------------------------------- reshaping

RECURSIVE Concat(_)
Concat(rows) == IF rows = << >> THEN << >> ELSE Head(rows) \o Concat(Tail(rows))

\* np.array(losses).reshape(-1, 1)
ColumnOfScalars(s) == [k \in 1..Len(s) |-> << s[k] >>]

\* np.array(predictions).reshape(-1, 1)
ColumnOfRows(rows) == ColumnOfScalars(Concat(rows))

\* predictions collected newest first
PrependPrediction(preds, seq_pred) == << Flatten(seq_pred) >> \o preds

\* predictions.append(seq_pred.cpu().numpy().flatten())
AppendPrediction(preds, seq_pred) == Append(preds, Flatten(seq_pred))

\* ---------------------------------------------------------------- Init

ResetFit ==
  /\ num_epochs' = 0
  /\ epoch' = 0
  /\ train_losses' = << >>
  /\ val_losses' = << >>
  /\ fit_ret' = << >>

ResetPredict ==
  /\ model_path' = ""
  /\ dataset' = << >>
  /\ predictions' = << >>
  /\ losses' = << >>
  /\ ret_predictions' = << >>
  /\ ret_losses' = << >>

ResetPlot ==
  /\ reconstruction_error' = << >>
  /\ threshold' = << >>
  /\ correct' = 0
  /\ anomaly' = << >>

\* the state when the script has loaded the data and constructed model and
\* Trainer (Trainer.__init__ made log_dir)
Init ==
  /\ log_dir \in LogDirs
  /\ model_name \in ModelNames
  /\ history = EmptyHistory
  /\ \E sh \in Shapes :
       /\ seq_len = sh[1]
       /\ n_features = sh[2]
  /\ params = InitParams
  /\ \E n \in 2..MaxCorpus : \E v \in 0..MaxValue : \E split \in 1..(n - 1) :
       LET corpus == MakeDataset(n, v, seq_len, n_features)
       IN /\ train_ds = SubSeq(corpus, 1, split)
          /\ val_ds = SubSeq(corpus, split + 1, n)
  /\ dirs = {log_dir}
  /\ ckpt_files = [q \in CkptPaths |-> << >>]
  /\ loss_files = [q \in SavezPaths |-> << >>]
  /\ figures = {}
  /\ result_txt = << >>
  /\ anomaly_csv = << >>
  /\ pc = "idle"
  /\ caller = "main"
  /\ outcome = << "none", "none" >>
  /\ num_epochs = 0
  /\ epoch = 0
  /\ idx = 1
  /\ train_losses = << >>
  /\ val_losses = << >>
  /\ fit_ret = << >>
  /\ model_path = ""
  /\ dataset = << >>
  /\ predictions = << >>
  /\ losses = << >>
  /\ ret_predictions = << >>
  /\ ret_losses = << >>
  /\ reconstruction_error = << >>
  /\ threshold = << >>
  /\ correct = 0
  /\ anomaly = << >>
  /\ prev_scored = << >>

\* ----------------------------------------------------------- Trainer.fit

\* fit(model, train_ds, val_ds, num_epochs = k): the optimizer is made and the
\* epoch loop is entered (or skipped, for k = 0)
FitStart(k) ==
  /\ pc = "idle"
  /\ Len(history.train) + k <= MaxHistory
  /\ num_epochs' = k
  /\ outcome' = << "fit", "running" >>
  /\ pc' = IF k > 0 THEN "fit_train" ELSE "fit_save"
  /\ UNCHANGED << trainerVars, history, params, dataVars, dirs, ckpt_files,
                  loss_files, outputFiles, caller, idx, epoch, train_losses,
                  val_losses, fit_ret, predictLocals, plotLocals, prev_scored >>

\* one training sequence: forward, loss, backward, optimizer step, record
FitTrainStep ==
  /\ pc = "fit_train"
  /\ idx <= Len(train_ds)
  /\ LET seq_input == train_ds[idx]
         seq_pred == Forward(params, seq_input)
         loss == L1Loss(seq_pred, seq_input)
     IN /\ params' = OptimizerStep(params, seq_input)
        /\ train_losses' = Append(train_losses, loss)
  /\ IF idx = Len(train_ds)
       THEN /\ pc' = "fit_val"
            /\ idx' = 1
            /\ val_losses' = << >>
       ELSE /\ pc' = pc
            /\ idx' = idx + 1
            /\ val_losses' = val_losses
  /\ UNCHANGED << trainerVars, history, dataVars, dirs, ckpt_files, loss_files,
                  outputFiles, caller, outcome, num_epochs, epoch, fit_ret,
                  predictLocals, plotLocals, prev_scored >>

\* one validation sequence: forward and loss only
FitValStep ==
  /\ pc = "fit_val"
  /\ idx <= Len(val_ds)
  /\ LET seq_input == val_ds[idx]
         seq_pred == Forward(params, seq_input)
         loss == L1Loss(seq_pred, seq_input)
     IN /\ params' = ValParams(params, seq_input)
        /\ val_losses' = Append(val_losses, loss)
  /\ IF idx = Len(val_ds)
       THEN /\ pc' = "fit_epoch_end"
            /\ idx' = 1
       ELSE /\ pc' = pc
            /\ idx' = idx + 1
  /\ UNCHANGED << trainerVars, history, dataVars, dirs, ckpt_files, loss_files,
                  outputFiles, caller, outcome, num_epochs, epoch, train_losses,
                  fit_ret, predictLocals, plotLocals, prev_scored >>

\* an unhandled error in a training or validation step aborts fit
FitRaise ==
  /\ pc \in {"fit_train", "fit_val"}
  /\ pc' = "done"
  /\ outcome' = << "fit", "error" >>
  /\ UNCHANGED << trainerVars, history, params, dataVars, dirs, ckpt_files,
                  loss_files, outputFiles, caller, num_epochs, epoch, idx,
                  train_losses, val_losses, fit_ret, predictLocals, plotLocals,
                  prev_scored >>

\* an epoch end that also checkpoints the model
FitEpochEndCheckpointing ==
  /\ pc = "fit_epoch_end"
  /\ history' = [train |-> Append(history.train, Mean(train_losses)),
                 val |-> Append(history.val, Mean(val_losses))]
  /\ epoch' = epoch + 1
  /\ ckpt_files' = [ckpt_files EXCEPT ![CkptPath(log_dir, model_name)] = << params >>]
  /\ IF epoch + 1 < num_epochs
       THEN /\ pc' = "fit_train"
            /\ train_losses' = << >>
       ELSE /\ pc' = "fit_save"
            /\ train_losses' = train_losses
  /\ UNCHANGED << trainerVars, params, dataVars, dirs, loss_files,
                  outputFiles, caller, outcome, num_epochs, idx, val_losses,
                  fit_ret, predictLocals, plotLocals, prev_scored >>

\* the epoch's means are appended to self.history; next epoch or leave the loop
FitEpochEnd ==
  /\ pc = "fit_epoch_end"
  /\ history' = [train |-> Append(history.train, Mean(train_losses)),
                 val |-> Append(history.val, Mean(val_losses))]
  /\ epoch' = epoch + 1
  /\ IF epoch + 1 < num_epochs
       THEN /\ pc' = "fit_train"
            /\ train_losses' = << >>
       ELSE /\ pc' = "fit_save"
            /\ train_losses' = train_losses
  /\ UNCHANGED << trainerVars, params, dataVars, dirs, ckpt_files, loss_files,
                  outputFiles, caller, outcome, num_epochs, idx, val_losses,
                  fit_ret, predictLocals, plotLocals, prev_scored >>

\* torch.save(model.state_dict(), ...); np.savez(...); return self.history
FitSave ==
  /\ pc = "fit_save"
  /\ ckpt_files' = [ckpt_files EXCEPT ![CkptPath(log_dir, model_name)] = << params >>]
  /\ loss_files' = [loss_files EXCEPT ![SavezPath(log_dir)] = << history >>]
  /\ fit_ret' = << history >>
  /\ outcome' = << "fit", "ok" >>
  /\ pc' = "done"
  /\ UNCHANGED << trainerVars, history, params, dataVars, dirs, outputFiles,
                  caller, num_epochs, epoch, idx, train_losses, val_losses,
                  predictLocals, plotLocals, prev_scored >>

\* Trainer.plot_loss_history(history, filename = "loss")
PlotLossHistory ==
  /\ pc = "idle"
  /\ dirs' = dirs \cup {"figures"}
  /\ figures' = figures \cup {"loss.png"}
  /\ UNCHANGED << trainerVars, history, params, dataVars, ckpt_files, loss_files,
                  result_txt, anomaly_csv, pc, caller, outcome, idx, fitLocals,
                  predictLocals, plotLocals, prev_scored >>
\* ------------------------------------------------------- Trainer.predict

CallName(who) == IF who = "plot" THEN "plot_prediction" ELSE "predict"

\* predict(model, path, ds), called by the script (who = "main") or as the
\* first statement of plot_prediction (who = "plot"): the checkpoint is loaded
PredictLoad(path, ds, who) ==
  /\ pc = "idle"
  /\ ckpt_files[path] # << >>
  /\ params' = ckpt_files[path][1]
  /\ model_path' = path
  /\ dataset' = ds
  /\ caller' = who
  /\ outcome' = << CallName(who), "running" >>
  /\ pc' = "predict_loop"
  /\ UNCHANGED << trainerVars, history, dataVars, dirs, ckpt_files, loss_files,
                  outputFiles, idx, fitLocals, predictions, losses,
                  ret_predictions, ret_losses, plotLocals, prev_scored >>

\* torch.load raises when there is no file at path
PredictLoadRaise(path, ds, who) ==
  /\ pc = "idle"
  /\ ckpt_files[path] = << >>
  /\ model_path' = path
  /\ dataset' = ds
  /\ caller' = who
  /\ outcome' = << CallName(who), "FileNotFoundError" >>
  /\ pc' = "done"
  /\ UNCHANGED << trainerVars, history, params, dataVars, dirs, ckpt_files,
                  loss_files, outputFiles, idx, fitLocals, predictions, losses,
                  ret_predictions, ret_losses, plotLocals, prev_scored >>

\* one sequence: forward and loss, both appended
PredictStep ==
  /\ pc = "predict_loop"
  /\ idx <= Len(dataset)
  /\ LET seq_input == dataset[idx]
         seq_pred == Forward(params, seq_input)
         loss == L1Loss(seq_pred, seq_input)
     IN /\ predictions' = AppendPrediction(predictions, seq_pred)
        /\ losses' = Append(losses, loss)
  /\ idx' = idx + 1
  /\ UNCHANGED << trainerVars, history, params, dataVars, dirs, ckpt_files,
                  loss_files, outputFiles, pc, caller, outcome, fitLocals,
                  model_path, dataset, ret_predictions, ret_losses, plotLocals,
                  prev_scored >>

\* both lists are reshaped to one column and returned
PredictReturn ==
  /\ pc = "predict_loop"
  /\ idx > Len(dataset)
  /\ ret_losses' = ColumnOfScalars(losses)
  /\ ret_predictions' = ColumnOfRows(predictions)
  /\ IF caller = "main"
       THEN /\ pc' = "done"
            /\ outcome' = << "predict", "ok" >>
       ELSE /\ pc' = "plot_load"
            /\ outcome' = outcome
  /\ UNCHANGED << trainerVars, history, params, dataVars, dirs, ckpt_files,
                  loss_files, outputFiles, caller, idx, fitLocals, model_path,
                  dataset, predictions, losses, plotLocals, prev_scored >>

\* ----------------------------------------------- Trainer.plot_prediction

\* the errors of the data being scored
ReconstructionErrorOfScored == [i \in 1..Len(ret_losses) |-> ret_losses[i][1]]

\* reconstruction_error = np.asarray(loss_data["train_loss"])
ReconstructionError == loss_files[LossesReadPath][1].train

\* the archive is loaded, the threshold derived, the samples counted and labelled
PlotThreshold ==
  /\ pc = "plot_load"
  /\ loss_files[LossesReadPath] # << >>
  /\ reconstruction_error' = << ReconstructionError >>
  /\ LET th == Threshold(ReconstructionError)
     IN /\ threshold' = << th >>
        /\ correct' = CountCorrect(ret_losses, th)
        /\ anomaly' = [i \in 1..Len(ret_losses) |->
                         << IF AnomalyLabel(ret_losses[i][1], th) THEN 1 ELSE 0 >>]
  /\ pc' = "plot_figures"
  /\ UNCHANGED << trainerVars, history, params, dataVars, dirs, ckpt_files,
                  loss_files, outputFiles, caller, outcome, idx, fitLocals,
                  predictLocals, prev_scored >>

\* a missing archive taken as an empty one
PlotLoadFallback ==
  /\ pc = "plot_load"
  /\ loss_files[LossesReadPath] = << >>
  /\ reconstruction_error' = << << >> >>
  /\ threshold' = << Threshold(<< >>) >>
  /\ pc' = "plot_figures"
  /\ UNCHANGED << trainerVars, history, params, dataVars, dirs, ckpt_files,
                  loss_files, outputFiles, caller, outcome, idx, fitLocals,
                  predictLocals, correct, anomaly, prev_scored >>

\* np.load raises when there is no archive
PlotLoadRaise ==
  /\ pc = "plot_load"
  /\ loss_files[LossesReadPath] = << >>
  /\ pc' = "done"
  /\ outcome' = << "plot_prediction", "FileNotFoundError" >>
  /\ UNCHANGED << trainerVars, history, params, dataVars, dirs, ckpt_files,
                  loss_files, outputFiles, caller, idx, fitLocals, predictLocals,
                  plotLocals, prev_scored >>

\* the three histograms are saved under figures/
PlotFigures ==
  /\ pc = "plot_figures"
  /\ "figures" \in dirs
  /\ figures' = figures \cup ScoreFigures
  /\ pc' = "plot_result"
  /\ UNCHANGED << trainerVars, history, params, dataVars, dirs, ckpt_files,
                  loss_files, result_txt, anomaly_csv, caller, outcome, idx,
                  fitLocals, predictLocals, plotLocals, prev_scored >>

\* plt.savefig raises when figures/ does not exist
PlotFiguresRaise ==
  /\ pc = "plot_figures"
  /\ "figures" \notin dirs
  /\ pc' = "done"
  /\ outcome' = << "plot_prediction", "FileNotFoundError" >>
  /\ UNCHANGED << trainerVars, history, params, dataVars, dirs, ckpt_files,
                  loss_files, outputFiles, caller, idx, fitLocals, predictLocals,
                  plotLocals, prev_scored >>

\* training_logs/result.txt: threshold and accuracy = correct / len(dataset)
PlotResult ==
  /\ pc = "plot_result"
  /\ result_txt' = << [threshold |-> threshold[1], correct |-> correct,
                       n |-> Len(dataset)] >>
  /\ prev_scored' = << [dataset |-> dataset,
                        archive |-> loss_files[LossesReadPath],
                        threshold |-> threshold[1]] >>
  /\ pc' = "plot_table"
  /\ UNCHANGED << trainerVars, history, params, dataVars, dirs, ckpt_files,
                  loss_files, figures, anomaly_csv, caller, outcome, idx,
                  fitLocals, predictLocals, plotLocals >>

\* the columns of the table: true values and predictions hold one entry per
\* point, MAE one per sequence
TableColumnsAgree == Len(ret_predictions) = Len(ret_losses)

\* training_logs/anomaly.csv: one row per sample, MAE and Anomaly
PlotTable ==
  /\ pc = "plot_table"
  /\ TableColumnsAgree
  /\ anomaly_csv' = << [i \in 1..Len(ret_losses) |->
                          [MAE |-> ret_losses[i][1],
                           Anomaly |-> TableAnomaly(ret_losses[i][1], threshold[1])]] >>
  /\ pc' = "done"
  /\ outcome' = << "plot_prediction", "ok" >>
  /\ UNCHANGED << trainerVars, history, params, dataVars, dirs, ckpt_files,
                  loss_files, figures, result_txt, caller, idx, fitLocals,
                  predictLocals, plotLocals, prev_scored >>

\* pd.DataFrame.from_dict raises when the columns differ in length
PlotTableRaise ==
  /\ pc = "plot_table"
  /\ ~TableColumnsAgree
  /\ pc' = "done"
  /\ outcome' = << "plot_prediction", "ValueError" >>
  /\ UNCHANGED << trainerVars, history, params, dataVars, dirs, ckpt_files,
                  loss_files, outputFiles, caller, idx, fitLocals, predictLocals,
                  plotLocals, prev_scored >>

\* the call has returned or raised: its frame is gone
Return ==
  /\ pc = "done"
  /\ ResetFit
  /\ ResetPredict
  /\ ResetPlot
  /\ idx' = 1
  /\ caller' = "main"
  /\ outcome' = << "none", "none" >>
  /\ pc' = "idle"
  /\ UNCHANGED << trainerVars, history, params, dataVars, dirs, ckpt_files,
                  loss_files, outputFiles, prev_scored >>

\* ------------------------------------------------------------------ Next

Next ==
  \/ \E k \in 0..MaxHistory : FitStart(k)
  \/ FitTrainStep
  \/ FitValStep
  \/ FitRaise
  \/ FitEpochEnd
  \/ FitSave
  \/ PlotLossHistory
  \/ \E path \in CkptPaths : \E ds \in {train_ds, val_ds} :
       \E who \in {"main", "plot"} : PredictLoad(path, ds, who)
  \/ \E path \in CkptPaths : \E ds \in {train_ds, val_ds} :
       \E who \in {"main", "plot"} : PredictLoadRaise(path, ds, who)
  \/ PredictStep
  \/ PredictReturn
  \/ PlotThreshold
  \/ PlotLoadRaise
  \/ PlotFigures
  \/ PlotFiguresRaise
  \/ PlotResult
  \/ PlotTable
  \/ PlotTableRaise
  \/ Return

Spec == Init /\ [][Next]_vars

\* ---------------------------------------------------------------- claims

\* the positions of plot_prediction after the threshold has been derived
AfterThreshold == {"plot_figures", "plot_result", "plot_table"}

FitReturned == pc = "done" /\ outcome = << "fit", "ok" >>

FitFailed == pc = "done" /\ outcome = << "fit", "error" >>

PredictReturned == pc = "done" /\ outcome = << "predict", "ok" >>

PlotReturned == pc = "done" /\ outcome = << "plot_prediction", "ok" >>

\* l = threshold
EqThreshold(l, th) ==
  /\ th.n > 0
  /\ l * th.n - th.sum >= 0
  /\ (l * th.n - th.sum) * (l * th.n - th.sum) = th.dev

\* what the scoring step writes
ScoringOutputs == << figures \cap ScoreFigures, result_txt, anomaly_csv >>

\* C1: every completed fit(num_epochs = k) returns a history of exactly k train
\* and k val entries, and the archive it wrote holds the same values, second
\* calls on the same Trainer included (stated for k >= 1).
C1_FitReturnsOneEntryPerEpoch ==
  (FitReturned /\ num_epochs >= 1) =>
    /\ Len(fit_ret[1].train) = num_epochs
    /\ Len(fit_ret[1].val) = num_epochs
    /\ loss_files[SavezPath(log_dir)] = fit_ret

\* C2 as stated: after a failed fit no checkpoint file of this Trainer exists,
\* whatever fit calls were made before.
C2_NoCheckpointAfterFailedFit ==
  FitFailed => ckpt_files[CkptPath(log_dir, model_name)] = << >>

\* C2 as amended: checkpoint and archive are written only by the step that
\* follows the last epoch's validation pass and completes fit, so a fit that
\* fails in a training or validation step leaves both files as they were.
C2_FilesWrittenOnlyAfterLastEpoch ==
  [][ /\ (ckpt_files' # ckpt_files \/ loss_files' # loss_files) =>
           /\ pc = "fit_save"
           /\ epoch = num_epochs
           /\ outcome' = << "fit", "ok" >>
      /\ outcome' = << "fit", "error" >> =>
           /\ ckpt_files' = ckpt_files
           /\ loss_files' = loss_files ]_vars

\* a fit that failed after a completed epoch, and no checkpoint file
C2_Witness ==
  /\ FitFailed
  /\ epoch >= 1
  /\ ckpt_files[CkptPath(log_dir, model_name)] = << >>

\* C3: the threshold is the function Threshold of the persisted training-loss
\* history alone: it is that function of the archive whenever it has been
\* derived, two scorings under the same archive derive the same threshold
\* whatever they score, and no step of predict or plot_prediction changes the
\* archive.
C3_ThresholdFromPersistedHistoryOnly ==
  /\ [](pc \in AfterThreshold =>
          /\ loss_files[LossesReadPath] # << >>
          /\ threshold[1] = Threshold(loss_files[LossesReadPath][1].train)
          /\ (prev_scored # << >> /\ prev_scored[1].archive = loss_files[LossesReadPath])
               => prev_scored[1].threshold = threshold[1])
  /\ [][ (pc \in {"predict_loop", "plot_load"} \cup AfterThreshold
            \/ (pc = "idle" /\ pc' \in {"predict_loop", "done"}))
         => loss_files' = loss_files ]_vars

\* a second scoring, of another dataset, under the archive of the first
C3_Witness ==
  /\ pc \in AfterThreshold
  /\ prev_scored # << >>
  /\ prev_scored[1].archive = loss_files[LossesReadPath]
  /\ prev_scored[1].dataset # dataset
  /\ prev_scored[1].threshold = threshold[1]

\* C4: the collection plot_prediction takes mean and stddev of holds one value
\* per training sequence, its MAE loss under the trained model (stated for a
\* history of at least one epoch).
C4_OneErrorPerTrainingSequence ==
  (pc \in AfterThreshold /\ Len(reconstruction_error[1]) >= 1) =>
    reconstruction_error[1] =
      [i \in 1..Len(train_ds) |-> L1Loss(Forward(params, train_ds[i]), train_ds[i])]

\* C5: a sample is labelled anomalous exactly when its loss >= threshold, a
\* loss equal to the threshold included, in the anomaly array and in the
\* Anomaly column of the table, whose MAE column holds the samples' losses.
C5_LabelIffLossAtLeastThreshold ==
  /\ pc \in AfterThreshold \/ PlotReturned =>
       /\ Len(anomaly) = Len(ret_losses)
       /\ \A i \in 1..Len(ret_losses) :
            /\ anomaly[i] = << 1 >> <=> GeThreshold(ret_losses[i][1], threshold[1])
            /\ EqThreshold(ret_losses[i][1], threshold[1]) => anomaly[i] = << 1 >>
  /\ PlotReturned =>
       /\ anomaly_csv # << >>
       /\ Len(anomaly_csv[1]) = Len(ret_losses)
       /\ \A i \in 1..Len(ret_losses) :
            /\ anomaly_csv[1][i].MAE = ret_losses[i][1]
            /\ anomaly_csv[1][i].Anomaly <=> GeThreshold(ret_losses[i][1], threshold[1])
            /\ EqThreshold(ret_losses[i][1], threshold[1]) => anomaly_csv[1][i].Anomaly

\* a written table with a sample whose loss equals the threshold
C5_Witness ==
  /\ PlotReturned
  /\ \E i \in 1..Len(ret_losses) :
       /\ EqThreshold(ret_losses[i][1], threshold[1])
       /\ anomaly[i] = << 1 >>
       /\ anomaly_csv[1][i].Anomaly

\* C6: the archive plot_prediction reads is the one this Trainer's fit writes,
\* <log_dir>/losses, for every log_dir.
C6_ReadsTheArchiveFitWrote ==
  pc = "plot_load" => LossesReadPath = SavezPath(log_dir)

\* C7: only the training steps of fit change the parameters (and the load of
\* the checkpoint sets them): a validation step leaves them unchanged, and
\* while predict scores its sequences they equal the loaded checkpoint.
C7_ParamsChangedOnlyByTraining ==
  [][ /\ params' # params =>
           \/ pc = "fit_train"
           \/ pc = "idle" /\ pc' = "predict_loop"
      /\ pc = "fit_val" => params' = params
      /\ pc = "predict_loop" =>
           /\ params = ckpt_files[model_path][1]
           /\ params' = params
           /\ ckpt_files' = ckpt_files ]_vars

\* predict has scored two sequences with parameters that training had changed
C7_Witness ==
  /\ pc = "predict_loop"
  /\ idx > Len(dataset)
  /\ Len(dataset) >= 2
  /\ params # InitParams
  /\ params = ckpt_files[model_path][1]

\* C8: predict returns N losses and N * seq_len * n_features predictions, each
\* a single column, the i-th loss and the i-th block of predictions being those
\* of the i-th input sequence.
C8_PredictShapeAndOrder ==
  (PredictReturned \/ pc = "plot_load") =>
    LET N == Len(dataset)
        W == seq_len * n_features
    IN /\ Len(ret_losses) = N
       /\ Len(ret_predictions) = N * W
       /\ \A j \in 1..Len(ret_losses) : Len(ret_losses[j]) = 1
       /\ \A j \in 1..Len(ret_predictions) : Len(ret_predictions[j]) = 1
       /\ \A i \in 1..N :
            LET seq_pred == Forward(params, dataset[i])
            IN /\ ret_losses[i][1] = L1Loss(seq_pred, dataset[i])
               /\ \A t \in 1..seq_len : \A f \in 1..n_features :
                    ret_predictions[(i - 1) * W + (t - 1) * n_features + f][1]
                      = seq_pred[t][f]

\* predict returned for two sequences of two values whose reconstructions differ
C8_Witness ==
  /\ PredictReturned
  /\ Len(dataset) >= 2
  /\ seq_len * n_features >= 2
  /\ Len(ret_predictions) = Len(dataset) * seq_len * n_features
  /\ Forward(params, dataset[1]) # Forward(params, dataset[2])
  /\ ret_predictions[1] # ret_predictions[2]

\* C9: plot_prediction called without the checkpoint or without the archive
\* fails with the error, and nothing of what the scoring step writes is written
\* before both were read: the outputs change only after the threshold was
\* derived from the loaded archive.
C9_NoOutputWithoutBothArtifacts ==
  [][ /\ ScoringOutputs' # ScoringOutputs =>
           /\ pc \in AfterThreshold
           /\ ckpt_files[model_path] # << >>
           /\ loss_files[LossesReadPath] # << >>
           /\ reconstruction_error = << loss_files[LossesReadPath][1].train >>
      /\ (pc = "idle" /\ pc' # "idle" /\ caller' = "plot"
            /\ ckpt_files[model_path'] = << >>) =>
           /\ pc' = "done"
           /\ outcome' = << "plot_prediction", "FileNotFoundError" >>
           /\ ScoringOutputs' = ScoringOutputs
      /\ (pc = "plot_load" /\ loss_files[LossesReadPath] = << >>) =>
           /\ pc' = "done"
           /\ outcome' = << "plot_prediction", "FileNotFoundError" >>
           /\ ScoringOutputs' = ScoringOutputs ]_vars

\* plot_prediction failed for the missing archive, the checkpoint was there,
\* and nothing was written
C9_Witness ==
  /\ pc = "done"
  /\ outcome = << "plot_prediction", "FileNotFoundError" >>
  /\ ckpt_files[model_path] # << >>
  /\ loss_files[LossesReadPath] = << >>
  /\ Len(ret_losses) >= 1
  /\ ScoringOutputs = << {}, << >>, << >> >>

\* C10: the samples counted correct and the samples labelled anomalous are
\* disjoint and cover all N samples: correct + anomalous = N (stated for a
\* threshold that is a number, derived from at least one epoch).
C10_CorrectPlusAnomalousIsN ==
  (pc \in AfterThreshold /\ threshold[1].n >= 1) =>
    /\ correct + Cardinality({ i \in 1..Len(anomaly) : anomaly[i] = << 1 >> })
         = Len(ret_losses)
    /\ \A i \in 1..Len(ret_losses) :
         ~(LeThreshold(ret_losses[i][1], threshold[1]) /\ anomaly[i] = << 1 >>)

====
